---- MODULE Spec2Model ----
(***************************************************************************)
(* A model of libstempo/toasim.py: the noise injectors that draw from the  *)
(* shared numpy generator, quantize_fast, computeORFMatrix,                *)
(* createGWB_clean and add_cgw.                                            *)
(*                                                                         *)
(* Reals are modelled exactly on grids where the code's arithmetic is      *)
(* exact:                                                                  *)
(*   - angles are integer numbers of quarter turns (pi/2), so every sine   *)
(*     and cosine is -1, 0 or 1;                                           *)
(*   - an ORF entry is a pair (r, l) standing for r/12 + (l/12)*ln 2;      *)
(*   - a quantity that is not on a grid (a chirped frequency, a Fourier    *)
(*     sum) is kept as the unevaluated expression of the values it is      *)
(*     computed from, so two values are equal in the model only when the   *)
(*     code computes them from the same data by the same formula.          *)
(* Python indices are 0-based; sequences here are 1-based unless a         *)
(* function over 0..n-1 is used (the frequency bins).                      *)
(***************************************************************************)
EXTENDS Integers, Sequences, FiniteSets, TLC

VARIABLES
    rng,     \* state of the process-wide generator N.random
    psrs,    \* the pulsar objects of the session (sky position, epochs)
    stoas,   \* stoas[p][i]: what has been added to epoch i of pulsar p
    calls    \* log of the calls made: arguments, generator use, result

vars == <<rng, psrs, stoas, calls>>

----------------------------------------------------------------------------
(* Bounds of the model *)

RngMod == 8          \* number of generator states
MaxSeed == 1         \* seeds are 0..MaxSeed
MaxCalls == 3        \* calls per session in SpecSeed
MaxNpts == 4         \* npts of createGWB_clean is 2..MaxNpts
MaxHowml == 7        \* howml of createGWB_clean is 1..MaxHowml
MaxPsr == 3          \* pulsars in a list handed to computeORFMatrix
MaxN == 3            \* timestamps handed to quantize_fast
MaxT == 4            \* timestamps are 0..MaxT
MaxDt == 2           \* dt of quantize_fast is 1..MaxDt
MaxDelay == 1        \* pdist and pphase of add_cgw are 0..MaxDelay

----------------------------------------------------------------------------
(* Small helpers *)

Min2(a, b) == IF a <= b THEN a ELSE b
Max2(a, b) == IF a >= b THEN a ELSE b

RECURSIVE SumSeq(_)
SumSeq(s) == IF s = <<>> THEN 0 ELSE Head(s) + SumSeq(Tail(s))

Range(s) == {s[i] : i \in DOMAIN s}

\* seed=None is <<>>, seed=s is <<s>>
NoSeed == <<>>
SeedArgs == {NoSeed} \cup {<<s>> : s \in 0..MaxSeed}

----------------------------------------------------------------------------
(* The shared generator.  N.random.seed(s) sets the state from s alone;    *)
(* every normal deviate drawn advances the state by one step.              *)

SeedState(s) == s % RngMod

RngStep(s) == (5 * s + 3) % RngMod

\* the states the generator passes through in n draws from state s
RECURSIVE Stream(_, _)
Stream(s, n) ==
    IF n = 0 THEN <<>>
    ELSE IF n = 1 THEN << RngStep(s) >>
    ELSE LET h == n \div 2
             a == Stream(s, h)
         IN  a \o Stream(a[h], n - h)

\* the state n draws leave
RngAfter(s, n) == IF n = 0 THEN s ELSE Stream(s, n)[n]

\* the deviate read off a state: -1, 0 or 1
Deviate(s) == (s % 3) - 1

\* N.random.randn(n) from state s: the n deviates, in draw order
Randn(s, n) == LET st == Stream(s, n) IN [i \in 1..n |-> Deviate(st[i])]

\* "if seed is not None: N.random.seed(seed)"
SeedDropped(seed, s) == s
Reseed(seed, s) == IF seed # NoSeed THEN SeedState(seed[1]) ELSE s

----------------------------------------------------------------------------
(* Pulsars.  RAJ and DECJ are in quarter turns; toas are integers in the   *)
(* grid unit of the operation that reads them.                             *)

Pulsar(raj, decj, toas) == [RAJ |-> raj, DECJ |-> decj, toas |-> toas]

nobs(p) == Len(p.toas)

\* psr.toas(): epoch i as its noiseless value and what was added to it
Toas(p, added) == [i \in 1..nobs(p) |-> [t0 |-> p.toas[i], added |-> added[i]]]

NoneAdded(p) == [i \in 1..nobs(p) |-> <<>>]

CosQ(q) == CASE q % 4 = 0 -> 1
             [] q % 4 = 1 -> 0
             [] q % 4 = 2 -> -1
             [] OTHER -> 0

SinQ(q) == CosQ(q + 3)

Dot(a, b) == a[1] * b[1] + a[2] * b[2] + a[3] * b[3]

\* ptheta = pi/2 - DECJ, pphi = RAJ; phat = (cos phi sin theta, sin phi sin theta, cos theta)
PTheta(p) == 1 - p.DECJ
PPhi(p) == p.RAJ
Phat(p) == << CosQ(PPhi(p)) * SinQ(PTheta(p)),
              SinQ(PPhi(p)) * SinQ(PTheta(p)),
              CosQ(PTheta(p)) >>

----------------------------------------------------------------------------
(* computeORFMatrix.  An entry [nan, r, l] is NaN, or r/12 + (l/12) ln 2.  *)

OrfNum(r, l) == [nan |-> FALSE, r |-> r, l |-> l]
OrfNaN == [nan |-> TRUE, r |-> 0, l |-> 0]

\* xip = (1 - sum(phati*phatj))/2, kept doubled: 0, 1 or 2
Xip2(pi, pj) == 1 - Dot(Phat(pi), Phat(pj))

\* 3*(1/3 + xip*(log(xip) - 1/6)) with log(1) = 0, log(1/2) = -ln 2 and
\* log(0) = -inf, where 0 * -inf is NaN.  In twelfths:
\* 12 + 18*xip2*log(xip)/ln2 - 3*xip2.
OrfOffDiagonal(x2) ==
    IF x2 = 0 THEN OrfNaN
    ELSE LET lg == IF x2 = 2 THEN 0 ELSE -1
         IN  OrfNum(12 - 3 * x2, 18 * x2 * lg)

OrfEntryRowOnly(psr, ll, kk) ==
    IF ll < kk THEN OrfOffDiagonal(Xip2(psr[ll], psr[kk])) ELSE OrfNum(24, 0)
OrfEntry(psr, ll, kk) ==
    IF ll # kk THEN OrfOffDiagonal(Xip2(psr[ll], psr[kk])) ELSE OrfNum(24, 0)

computeORFMatrix(psr) ==
    [ll \in 1..Len(psr) |-> [kk \in 1..Len(psr) |-> OrfEntry(psr, ll, kk)]]

HasNaN(ORF) == \E ll \in DOMAIN ORF : \E kk \in DOMAIN ORF[ll] : ORF[ll][kk].nan

----------------------------------------------------------------------------
(* quantize_fast.  isort is the permutation N.argsort returns: any one     *)
(* that sorts times (the default sort is not stable).                      *)

IsArgsort(times, isort) ==
    /\ Len(isort) = Len(times)
    /\ Range(isort) = DOMAIN times
    /\ \A a, b \in DOMAIN isort : a < b => times[isort[a]] <= times[isort[b]]

Perms(n) == {f \in [1..n -> 1..n] : Range(f) = 1..n}

Argsorts(times) == {f \in Perms(Len(times)) : IsArgsort(times, f)}

\* "if times[i] - bucket_ref[-1] < dt"
JoinsBucketInclusive(t, ref, dt) == t - ref <= dt
JoinsBucket(t, ref, dt) == t - ref < dt

\* bucket_ref and bucket_ind after the first n entries of isort
RECURSIVE Buckets(_, _, _, _)
Buckets(times, dt, isort, n) ==
    IF n = 1
    THEN [ref |-> << times[isort[1]] >>, ind |-> << << isort[1] >> >>]
    ELSE LET b == Buckets(times, dt, isort, n - 1)
             i == isort[n]
             m == Len(b.ref)
         IN  IF JoinsBucket(times[i], b.ref[m], dt)
             THEN [ref |-> b.ref,
                   ind |-> [b.ind EXCEPT ![m] = Append(@, i)]]
             ELSE [ref |-> Append(b.ref, times[i]),
                   ind |-> Append(b.ind, <<i>>)]

\* N.mean(times[l]) as the exact fraction sum/len
Mean(times, l) == [num |-> SumSeq([k \in 1..Len(l) |-> times[l[k]]]), den |-> Len(l)]

\* t, U of quantize_fast; raises IndexError on an empty array
quantize_fast(times, dt, isort) ==
    IF Len(times) = 0 THEN [raised |-> "IndexError", t |-> <<>>, U |-> <<>>]
    ELSE LET b == Buckets(times, dt, isort, Len(times))
         IN  [raised |-> "",
              t |-> [j \in 1..Len(b.ind) |-> Mean(times, b.ind[j])],
              U |-> [i \in 1..Len(times) |->
                       [j \in 1..Len(b.ind) |->
                          IF i \in Range(b.ind[j]) THEN 1 ELSE 0]]]

----------------------------------------------------------------------------
(* The noise injectors.  Each returns the generator state it leaves, the   *)
(* number of deviates it drew and the pulsar's stoas with its term added   *)
(* to every epoch.  A term names the injector, its amplitude and the       *)
(* deviates it is computed from.                                           *)

Term(op, a, z) == [op |-> op, a |-> a, z |-> z]

AddTerms(p, added, term) == [i \in 1..nobs(p) |-> Append(added[i], term[i])]

\* psr.stoas[:] += efac * psr.toaerrs * (1e-6 / day) * N.random.randn(psr.nobs)
add_efac(p, added, efac, seed, s) ==
    LET s0 == Reseed(seed, s)
        z == Randn(s0, nobs(p))
    IN  [rng |-> RngAfter(s0, nobs(p)), ndraws |-> nobs(p),
         stoas |-> AddTerms(p, added, [i \in 1..nobs(p) |-> Term("efac", efac, z[i])])]

\* psr.stoas[:] += (equad / day) * N.random.randn(psr.nobs)
add_equad(p, added, equad, seed, s) ==
    LET s0 == Reseed(seed, s)
        z == Randn(s0, nobs(p))
    IN  [rng |-> RngAfter(s0, nobs(p)), ndraws |-> nobs(p),
         stoas |-> AddTerms(p, added, [i \in 1..nobs(p) |-> Term("equad", equad, z[i])])]

\* t, U = quantize_fast(toas, 0.1); stoas += (equad / day) * dot(U, randn(U.shape[1]))
\* toas are in tenths of a day, so the width 0.1 is 1; what was added to an
\* epoch is far below that width and does not move it to another cluster
add_jitter(p, added, equad, seed, s, isort) ==
    LET s0 == Reseed(seed, s)
        U == quantize_fast(p.toas, 1, isort).U
        M == Len(U[1])
        z == Randn(s0, M)
    IN  [rng |-> RngAfter(s0, M), ndraws |-> M,
         stoas |-> AddTerms(p, added,
                     [i \in 1..nobs(p) |->
                        Term("jitter", equad, SumSeq([j \in 1..M |-> U[i][j] * z[j]]))])]

\* components=10, the default of add_rednoise and add_dm
DefaultComponents == 10

\* x = (t - minx)/(maxx - minx) is 0/0 when all epochs coincide
FourierTerm(op, p, a, z) ==
    [i \in 1..nobs(p) |->
        IF \A j \in 1..nobs(p) : p.toas[j] = p.toas[1] THEN Term("nan", a, <<>>)
        ELSE Term(op, a, z)]

\* y = sqrt(prior) * randn(2*components); stoas += (1.0/day) * dot(F, y)
add_rednoise(p, added, A, gamma, components, seed, s) ==
    LET s0 == Reseed(seed, s)
        size == 2 * components
        z == Randn(s0, size)
    IN  [rng |-> RngAfter(s0, size), ndraws |-> size,
         stoas |-> AddTerms(p, added, FourierTerm("rednoise", p, <<A, gamma>>, z))]

\* as add_rednoise, scaled by v = DMk / psr.freqs**2
add_dm(p, added, A, gamma, components, seed, s) ==
    LET s0 == Reseed(seed, s)
        size == 2 * components
        z == Randn(s0, size)
    IN  [rng |-> RngAfter(s0, size), ndraws |-> size,
         stoas |-> AddTerms(p, added, FourierTerm("dm", p, <<A, gamma>>, z))]

----------------------------------------------------------------------------
(* createGWB_clean.                                                        *)
(* A frequency-domain sample of pulsar ll in bin k is the sum over j of    *)
(* M[ll][j] * c[j], times sqrt(C[bin]); M = cholesky(ORF) is lower         *)
(* triangular and real, C is real, c[j] is the complex deviate <<re, im>>  *)
(* of pulsar j in bin k.  The sample is kept as (c, bin): conjugation and  *)
(* zeroing act on it exactly.                                              *)

Zero == [kind |-> "zero", c |-> <<>>, bin |-> 0]
NaNSample == [kind |-> "nan", c |-> <<>>, bin |-> 0]
Lin(c, bin) == [kind |-> "lin", c |-> c, bin |-> bin]

Conj(z) ==
    IF z.kind = "lin"
    THEN Lin([j \in DOMAIN z.c |-> << z.c[j][1], 0 - z.c[j][2] >>], z.bin)
    ELSE z

\* len(N.arange(0, 1/(2*dt), 1/(dur*howml))) with dt = dur/npts:
\* ceil(npts*howml/2)
NumFreqs(npts, howml) == (npts * howml + 1) \div 2

\* N.diag(N.ones(Npulsars)*2)
DiagORF(n) == [ll \in 1..n |-> [kk \in 1..n |-> IF ll = kk THEN OrfNum(24, 0) ELSE OrfNum(0, 0)]]

\* which entries of M = cholesky(ORF) are not zero
MNonZero(noCorr, ll, j) == IF noCorr THEN j = ll ELSE j <= ll

\* w[ll,:] = randn(Nf) + 1j*randn(Nf), pulsar after pulsar, from state s
W(s, Npulsars, Nf) ==
    LET z == Randn(s, 2 * Nf * Npulsars)
    IN  [ll \in 1..Npulsars |-> [k \in 0..(Nf - 1) |->
            << z[2 * Nf * (ll - 1) + k + 1], z[2 * Nf * (ll - 1) + Nf + k + 1] >>]]

\* row ll of cholesky(ORF) is NaN when the factorization has read a NaN by
\* then: an entry ORF[r][j], j < r <= ll
NaNRow(ORF, ll) == \E r \in 1..ll : \E j \in 1..(r - 1) : ORF[r][j].nan

\* Res_f = dot(M, w), each row scaled by C**0.5 (f[0] = f[1], so bin 0 has
\* the scale of bin 1), then bins 0 and -1 set to 0
ResF(w, noCorr, ORF, Npulsars, Nf) ==
    [ll \in 1..Npulsars |-> [k \in 0..(Nf - 1) |->
        IF k = 0 \/ k = Nf - 1 THEN Zero
        ELSE IF NaNRow(ORF, ll) THEN NaNSample
        ELSE Lin([j \in 1..Npulsars |->
                    IF MNonZero(noCorr, ll, j) THEN w[j][k] ELSE <<0, 0>>],
                 IF k = 0 THEN 1 ELSE k)]]

\* Res_f2[:,0:Nf] = Res_f[:,0:Nf]
\* Res_f2[:,Nf:(2*Nf-2)] = conj(Res_f[:,(Nf-2):0:-1])
ResF2NoConj(Res_f, Npulsars, Nf) ==
    [ll \in 1..Npulsars |-> [k \in 0..(2 * Nf - 3) |->
        IF k < Nf THEN Res_f[ll][k] ELSE Res_f[ll][(Nf - 2) - (k - Nf)]]]
ResF2(Res_f, Npulsars, Nf) ==
    [ll \in 1..Npulsars |-> [k \in 0..(2 * Nf - 3) |->
        IF k < Nf THEN Res_f[ll][k] ELSE Conj(Res_f[ll][(Nf - 2) - (k - Nf)])]]

\* len(Res_t[ll, 10:(npts+10)]) for a series of length 2*Nf-2
SliceLen(Nf, npts) == Max2(0, Min2(2 * Nf - 2, npts + 10) - 10)

\* "Res[ll,:] = Res_t[ll, 10:(npts+10)]" fits when the slice has npts
\* samples, or one sample (which numpy broadcasts)
SliceFits(Nf, npts) == SliceLen(Nf, npts) = npts \/ SliceLen(Nf, npts) = 1

\* the call; toas[ll] is psr[ll].toas().  cholNaN tells what this build's
\* cholesky does with a NaN in the matrix: return a NaN factor, or raise.
Failed(what, s) ==
    [raised |-> what, rng |-> s, ndraws |-> 0, Nf |-> 0, ORF |-> <<>>, choleskyOf |-> <<>>,
     Res_f |-> <<>>, Res_f2 |-> <<>>, Res |-> <<>>, res_gw |-> <<>>]

createGWB_clean(psr, toas, turnover, noCorr, seed, npts, howml, s, cholNaN) ==
    LET s0 == Reseed(seed, s)
        Npulsars == Len(psr)
        ORF == IF noCorr THEN DiagORF(Npulsars) ELSE computeORFMatrix(psr)
        Nf == NumFreqs(npts, howml)
        nanM == NaNRow(ORF, Npulsars)
        w == W(s0, Npulsars, Nf)
        Res_f == ResF(w, noCorr, ORF, Npulsars, Nf)
        Res_f2 == ResF2(Res_f, Npulsars, Nf)
        ndraws == 2 * Nf * Npulsars
        s1 == RngAfter(s0, ndraws)
        \* Res[ll,:]: the samples interpolated from, on the grid ut
        Res == [ll \in 1..Npulsars |->
                  [ifft |-> Res_f2[ll], from |-> 10, len |-> SliceLen(Nf, npts),
                   turnover |-> turnover, npts |-> npts, howml |-> howml,
                   span |-> toas]]
    IN  IF Nf < 2 THEN [Failed("IndexError", s0) EXCEPT !.Nf = Nf, !.ORF = ORF]
        ELSE IF nanM /\ ~cholNaN
        THEN [Failed("LinAlgError", s0) EXCEPT !.Nf = Nf, !.ORF = ORF, !.choleskyOf = ORF]
        ELSE IF ~SliceFits(Nf, npts)
        THEN [Failed("ValueError", s1) EXCEPT !.Nf = Nf, !.ORF = ORF, !.choleskyOf = ORF,
                                              !.ndraws = ndraws,
                                              !.Res_f = Res_f, !.Res_f2 = Res_f2]
        ELSE [raised |-> "", rng |-> s1, ndraws |-> ndraws, Nf |-> Nf, ORF |-> ORF,
              choleskyOf |-> ORF, Res_f |-> Res_f, Res_f2 |-> Res_f2, Res |-> Res,
              res_gw |-> [ll \in 1..Npulsars |->
                            [i \in 1..Len(toas[ll]) |-> [series |-> ll, at |-> toas[ll][i]]]]]

----------------------------------------------------------------------------
(* add_cgw.                                                                *)
(* Units: an angle is a number of quarter turns, except psi, a number of   *)
(* eighth turns (so 2*psi is on the quarter-turn grid); a time is a        *)
(* multiple of 1/(4*fgw), so w0*t = pi*fgw*t is t eighth turns and         *)
(* 2*w0*t is t quarter turns; the binary merges at time tc = 1/fac1.       *)
(* fplus and fcross are kept in quarters; rplus and rcross in units of     *)
(* fac3/w0**(1/3).                                                         *)
(* A real is num (an integer in its unit), nan, or sym: a finite value     *)
(* given by the expression e that computes it.                             *)

Num(v) == [k |-> "num", v |-> v, e |-> <<>>]
NaN == [k |-> "nan", v |-> 0, e |-> <<>>]
Sym(e) == [k |-> "sym", v |-> 0, e |-> e]

IsNaN(a) == a.k = "nan"

Neg(a) ==
    IF IsNaN(a) THEN NaN
    ELSE IF a.k = "num" THEN Num(0 - a.v)
    ELSE Sym(<<"neg", a>>)

Add(a, b) ==
    IF IsNaN(a) \/ IsNaN(b) THEN NaN
    ELSE IF a.k = "num" /\ b.k = "num" THEN Num(a.v + b.v)
    ELSE IF a = Num(0) THEN b
    ELSE IF b = Num(0) THEN a
    ELSE Sym(<<"add", a, b>>)

\* equal finite operands cancel exactly
Sub(a, b) ==
    IF IsNaN(a) \/ IsNaN(b) THEN NaN
    ELSE IF a.k = "num" /\ b.k = "num" THEN Num(a.v - b.v)
    ELSE IF a = b THEN Num(0)
    ELSE IF b = Num(0) THEN a
    ELSE Sym(<<"sub", a, b>>)

Mul(a, b) ==
    IF IsNaN(a) \/ IsNaN(b) THEN NaN
    ELSE IF a.k = "num" /\ b.k = "num" THEN Num(a.v * b.v)
    ELSE IF a = Num(0) \/ b = Num(0) THEN Num(0)
    ELSE Sym(<<"mul", a, b>>)

\* x/y for integers, as numpy divides float64: 0/0 is NaN; scaled by 4
Quarters(x4, y) ==
    IF y = 0 THEN NaN      \* every numerator here is 0 when y is
    ELSE Num(x4 \div y)

\* unit vectors of the source
Mvec(gwtheta, gwphi) == << 0 - SinQ(gwphi), CosQ(gwphi), 0 >>
Nvec(gwtheta, gwphi) ==
    << 0 - CosQ(gwtheta) * CosQ(gwphi), 0 - CosQ(gwtheta) * SinQ(gwphi), SinQ(gwtheta) >>
Omhat(gwtheta, gwphi) ==
    << 0 - SinQ(gwtheta) * CosQ(gwphi), 0 - SinQ(gwtheta) * SinQ(gwphi), 0 - CosQ(gwtheta) >>

\* fplus = 0.5 * (dot(m, phat)**2 - dot(n, phat)**2) / (1 + dot(omhat, phat))
FPlus(m, n, omhat, phat) ==
    Quarters(2 * (Dot(m, phat) * Dot(m, phat) - Dot(n, phat) * Dot(n, phat)),
             1 + Dot(omhat, phat))

\* fcross = (dot(m, phat) * dot(n, phat)) / (1 + dot(omhat, phat))
FCross(m, n, omhat, phat) ==
    Quarters(4 * Dot(m, phat) * Dot(n, phat), 1 + Dot(omhat, phat))

\* pd * (1 - cosMu), the delay of the pulsar term:
\* pd = pphase/(2*pi*fgw*(1-cosMu)) when pphase is given (x/0 is inf or NaN,
\* and inf*0 is NaN), else pd = pdist
Delay(pdist, pphase, omc) ==
    IF pphase # <<>>
    THEN IF omc = 0 THEN NaN ELSE Num(pphase[1])
    ELSE Num(pdist * omc)

\* which of the three branches of "if evolve: ... elif phase_approx: ... else:"
PolicyApproxFirst(evolve, phase_approx) ==
    IF phase_approx THEN "phase_approx" ELSE IF evolve THEN "evolve" ELSE "monochromatic"
Policy(evolve, phase_approx) ==
    IF evolve THEN "evolve" ELSE IF phase_approx THEN "phase_approx" ELSE "monochromatic"

\* w0 * (1 - fac1 * t)**(-3/8): NaN past the merger (a negative base),
\* infinite at it
W0 == [law |-> "w0", t |-> Num(0)]
Chirp(t) == [law |-> "chirp", t |-> t]

\* a phase  phase0/2 + fac2*(w053 - Chirp(c)**(-5/3)) + omega*t, where the
\* chirp term is absent when c = <<>> and the linear term when t = <<>>
PhaseOf(phase0, c, omega, t) == [phase0 |-> phase0, c |-> c, omega |-> omega, t |-> t]

\* omega, omega_p, phase, phase_p at one epoch
Evolution(policy, phase0, toa, delay) ==
    LET tp == Sub(toa, delay)
    IN  CASE policy = "evolve" ->
               [omega |-> Chirp(toa), omega_p |-> Chirp(tp),
                phase |-> PhaseOf(phase0, <<toa>>, W0, <<>>),
                phase_p |-> PhaseOf(phase0, <<tp>>, W0, <<>>)]
          [] policy = "phase_approx" ->
               [omega |-> W0, omega_p |-> Chirp(Neg(delay)),
                phase |-> PhaseOf(phase0, <<>>, W0, <<toa>>),
                phase_p |-> PhaseOf(phase0, <<Neg(delay)>>, Chirp(Neg(delay)), <<toa>>)]
          [] OTHER ->
               [omega |-> W0, omega_p |-> W0,
                phase |-> PhaseOf(phase0, <<>>, W0, <<toa>>),
                phase_p |-> PhaseOf(phase0, <<>>, W0, <<tp>>)]

\* how a chirped frequency evaluates at time t for a merger at tc
ChirpIs(t, tc) ==
    IF IsNaN(t) \/ t.v > tc THEN "nan" ELSE IF t.v = tc THEN "inf" ELSE "finite"

\* alpha * (At*cos2psi - Bt*sin2psi) and alpha * (At*sin2psi + Bt*cos2psi)
\* with At = sin(2*phase)*incfac1, Bt = cos(2*phase)*incfac2,
\* incfac1 = -0.5*(3+cos(2*inc)), incfac2 = 2*cos(inc), alpha = fac3/omega**(1/3)
Polarization(pol, omega, phase, psi, inc, tc) ==
    LET incfac1 == 0 - ((3 + CosQ(2 * inc)) \div 2)
        incfac2 == 2 * CosQ(inc)
        chirped == {ChirpIs(omega.t, tc) : x \in IF omega.law = "chirp" THEN {1} ELSE {}}
                   \cup {ChirpIs(phase.c[1], tc) : x \in IF phase.c # <<>> THEN {1} ELSE {}}
    IN  IF "nan" \in chirped THEN NaN
        ELSE IF phase.t # <<>> /\ IsNaN(phase.t[1]) THEN NaN
        ELSE IF omega.law = "chirp" /\ "inf" \in chirped
        THEN IF phase.t # <<>> THEN NaN ELSE Num(0)   \* alpha = 0; inf*t has no sine
        ELSE IF omega.law = "w0" /\ phase.c = <<>>
        THEN LET q == phase.phase0 + phase.t[1].v     \* 2*phase in quarter turns
                 At == SinQ(q) * incfac1
                 Bt == CosQ(q) * incfac2
             IN  IF pol = "plus"
                 THEN Num(At * CosQ(psi) - Bt * SinQ(psi))
                 ELSE Num(At * SinQ(psi) + Bt * CosQ(psi))
        ELSE Sym([pol |-> pol, omega |-> omega, phase |-> phase, psi |-> psi, inc |-> inc])

\* "if psrTerm: res = fplus*(rplus_p-rplus)+fcross*(rcross_p-rcross)
\*  else: res = -fplus*rplus - fcross*rcross"
ResidualAlwaysPsrTerm(psrTerm, fplus, fcross, rplus, rcross, rplus_p, rcross_p) ==
    Add(Mul(fplus, Sub(rplus_p, rplus)), Mul(fcross, Sub(rcross_p, rcross)))
Residual(psrTerm, fplus, fcross, rplus, rcross, rplus_p, rcross_p) ==
    IF psrTerm
    THEN Add(Mul(fplus, Sub(rplus_p, rplus)), Mul(fcross, Sub(rcross_p, rcross)))
    ELSE Sub(Mul(Neg(fplus), rplus), Mul(fcross, rcross))

\* psr.stoas[:] += res/86400: adding an exact zero leaves the epoch as it is
AddResidual(added, res) ==
    [i \in DOMAIN added |->
        IF res[i] = Num(0) THEN added[i] ELSE Append(added[i], Term("cgw", 1, res[i]))]

add_cgw(p, added, gwtheta, gwphi, tc, phase0, psi, inc, pdist, pphase, psrTerm, evolve, phase_approx, tref) ==
    LET m == Mvec(gwtheta, gwphi)
        n == Nvec(gwtheta, gwphi)
        omhat == Omhat(gwtheta, gwphi)
        phat == Phat(p)
        fplus == FPlus(m, n, omhat, phat)
        fcross == FCross(m, n, omhat, phat)
        cosMu == 0 - Dot(omhat, phat)
        delay == Delay(pdist, pphase, 1 - cosMu)
        policy == Policy(evolve, phase_approx)
        toas == [i \in 1..nobs(p) |-> Num(p.toas[i] - tref)]
        ev == [i \in 1..nobs(p) |-> Evolution(policy, phase0, toas[i], delay)]
        rplus == [i \in 1..nobs(p) |->
                    Polarization("plus", ev[i].omega, ev[i].phase, 2 * psi, inc, tc)]
        rcross == [i \in 1..nobs(p) |->
                    Polarization("cross", ev[i].omega, ev[i].phase, 2 * psi, inc, tc)]
        rplus_p == [i \in 1..nobs(p) |->
                    Polarization("plus", ev[i].omega_p, ev[i].phase_p, 2 * psi, inc, tc)]
        rcross_p == [i \in 1..nobs(p) |->
                    Polarization("cross", ev[i].omega_p, ev[i].phase_p, 2 * psi, inc, tc)]
        res == [i \in 1..nobs(p) |->
                  Residual(psrTerm, fplus, fcross, rplus[i], rcross[i], rplus_p[i], rcross_p[i])]
    IN  [fplus |-> fplus, fcross |-> fcross, cosMu |-> cosMu, toas |-> toas,
         delay |-> delay, ev |-> ev,
         rplus |-> rplus, rcross |-> rcross, rplus_p |-> rplus_p, rcross_p |-> rcross_p,
         res |-> res, stoas |-> AddResidual(added, res)]

----------------------------------------------------------------------------
(* The call log.  An entry records the operation, its arguments, the       *)
(* generator state it found, the deviates it drew and what it returned or  *)
(* raised.                                                                 *)

Call(op, seed, args, found, ndraws, ret) ==
    [op |-> op, seed |-> seed, args |-> args, rng0 |-> found,
     ndraws |-> ndraws, ret |-> ret]

Last == calls[Len(calls)]

----------------------------------------------------------------------------
(* SpecQuantize: one call of quantize_fast on any timestamps *)

TimesArgs == UNION {[1..n -> 0..MaxT] : n \in 1..MaxN}

InitQuantize ==
    /\ rng = 0
    /\ psrs = <<>>
    /\ stoas = <<>>
    /\ calls = <<>>

QuantizeFastCall ==
    /\ calls = <<>>
    /\ \E times \in TimesArgs, dt \in 1..MaxDt :
         \E isort \in Argsorts(times) :
            calls' = Append(calls,
                       Call("quantize_fast", NoSeed, [times |-> times, dt |-> dt],
                            rng, 0, quantize_fast(times, dt, isort)))
    /\ UNCHANGED <<rng, psrs, stoas>>

NextQuantize == QuantizeFastCall

SpecQuantize == InitQuantize /\ [][NextQuantize]_vars

----------------------------------------------------------------------------
(* quantize_fast: what the returned t, U say about the clustering *)

RECURSIVE SumOver(_, _)
SumOver(S, times) ==
    IF S = {} THEN 0
    ELSE LET i == CHOOSE x \in S : TRUE
         IN  times[i] + SumOver(S \ {i}, times)

MinOver(S, times) == CHOOSE m \in {times[i] : i \in S} : \A i \in S : m <= times[i]

\* the timestamps column j of U selects
Members(U, j) == {i \in DOMAIN U : U[i][j] = 1}

IsQuantizeCall == calls # <<>> /\ Last.op = "quantize_fast"

\* N x M, 0/1, M <= N, one 1 per row, at least one per column, t[j] the mean
PartitionShape(times, ret) ==
    LET N == Len(times)
        M == Len(ret.t)
    IN  /\ ret.raised = ""
        /\ M <= N
        /\ Len(ret.U) = N
        /\ \A i \in 1..N :
             /\ Len(ret.U[i]) = M
             /\ \A j \in 1..M : ret.U[i][j] \in {0, 1}
             /\ Cardinality({j \in 1..M : ret.U[i][j] = 1}) = 1
        /\ \A j \in 1..M :
             /\ Members(ret.U, j) # {}
             /\ ret.t[j].den = Cardinality(Members(ret.U, j))
             /\ ret.t[j].num = SumOver(Members(ret.U, j), times)

\* columns follow increasing time
InTimeOrder(times, ret) ==
    \A i1, i2 \in DOMAIN times : \A j1, j2 \in DOMAIN ret.t :
        (ret.U[i1][j1] = 1 /\ ret.U[i2][j2] = 1 /\ times[i1] < times[i2]) => j1 <= j2

\* the gap between a cluster's reference (its first member) and timestamp i
Gap(times, ret, j, i) == times[i] - MinOver(Members(ret.U, j), times)

(* C9, as stated: a timestamp joins the current cluster unless it exceeds
   dt from the cluster's reference, so one exactly dt after it stays. *)
C9_Original ==
    IsQuantizeCall =>
        LET times == Last.args.times
            dt == Last.args.dt
            ret == Last.ret
            M == Len(ret.t)
        IN  /\ PartitionShape(times, ret)
            /\ InTimeOrder(times, ret)
            /\ \A j \in 1..M : \A i \in Members(ret.U, j) : Gap(times, ret, j, i) <= dt
            /\ \A j \in 1..(M - 1) : \A i \in Members(ret.U, j + 1) :
                 Gap(times, ret, j, i) > dt

(* C9, amended: quantize_fast returns M <= N cluster means and an N x M 0/1
   matrix with one 1 per row and at least one per column, t[j] the mean of
   column j's timestamps, the clusters formed greedily in time order: a
   timestamp joins the current cluster exactly when it is less than dt after
   the cluster's reference, so one exactly dt after it starts a new cluster. *)
C9_GreedyStrict ==
    IsQuantizeCall =>
        LET times == Last.args.times
            dt == Last.args.dt
            ret == Last.ret
            M == Len(ret.t)
        IN  /\ PartitionShape(times, ret)
            /\ InTimeOrder(times, ret)
            /\ \A j \in 1..M : \A i \in Members(ret.U, j) : Gap(times, ret, j, i) < dt
            /\ \A j \in 1..(M - 1) : \A i \in Members(ret.U, j + 1) :
                 Gap(times, ret, j, i) >= dt

\* a call where a timestamp lies exactly dt after a reference and opens the
\* next cluster, and another cluster holds several timestamps
C9_Witness ==
    /\ IsQuantizeCall
    /\ LET times == Last.args.times
           ret == Last.ret
       IN  /\ \E j \in 1..(Len(ret.t) - 1) : \E i \in Members(ret.U, j + 1) :
                Gap(times, ret, j, i) = Last.args.dt
           /\ \E j \in 1..Len(ret.t) : Cardinality(Members(ret.U, j)) > 1

----------------------------------------------------------------------------
(* SpecGWB: one call of createGWB_clean on a list of pulsars, from any     *)
(* generator state                                                         *)

\* at +x, at +z, and at +z again under another right ascension
PulsarPool ==
    << Pulsar(0, 0, <<0, 20>>), Pulsar(0, 1, <<0, 0, 30>>), Pulsar(1, 1, <<5>>) >>

\* lists of distinct pulsars of the pool
PulsarLists(n) ==
    {l \in UNION {[1..m -> Range(PulsarPool)] : m \in 1..n} :
        \A a, b \in DOMAIN l : a # b => l[a] # l[b]}

AllToas == [p \in DOMAIN psrs |-> Toas(psrs[p], stoas[p])]

InitGWB ==
    /\ rng \in 0..(RngMod - 1)
    /\ psrs \in PulsarLists(MaxPsr - 1)
    /\ stoas = [p \in DOMAIN psrs |-> NoneAdded(psrs[p])]
    /\ calls = <<>>

CreateGWBCall(turnover, noCorr, seed, npts, howml, cholNaN) ==
    LET ret == createGWB_clean(psrs, AllToas, turnover, noCorr, seed, npts, howml,
                               rng, cholNaN)
    IN  /\ rng' = ret.rng
        /\ calls' = Append(calls,
                      Call("createGWB_clean", seed,
                           [psr |-> psrs, toas |-> AllToas, turnover |-> turnover,
                            noCorr |-> noCorr, npts |-> npts, howml |-> howml],
                           rng, ret.ndraws, ret))
        /\ UNCHANGED <<psrs, stoas>>

GWBOnce ==
    /\ calls = <<>>
    /\ \E noCorr \in BOOLEAN, seed \in SeedArgs, npts \in 2..MaxNpts,
          howml \in 1..MaxHowml :
         \E cholNaN \in IF ~noCorr /\ HasNaN(computeORFMatrix(psrs))
                         THEN BOOLEAN ELSE {FALSE} :
            CreateGWBCall(FALSE, noCorr, seed, npts, howml, cholNaN)

NextGWB == GWBOnce

SpecGWB == InitGWB /\ [][NextGWB]_vars

----------------------------------------------------------------------------
(* SpecSeed: a session of up to MaxCalls calls that draw from the shared   *)
(* generator, on one pulsar                                                *)

InitSeed ==
    /\ rng = 0
    /\ psrs = << PulsarPool[2] >>
    /\ stoas = [p \in DOMAIN psrs |-> NoneAdded(psrs[p])]
    /\ calls = <<>>

\* a noise injector was called on pulsar p and returned r
Injected(op, p, seed, args, r) ==
    /\ rng' = r.rng
    /\ stoas' = [stoas EXCEPT ![p] = r.stoas]
    /\ calls' = Append(calls, Call(op, seed, [psr |-> p] @@ args, rng, r.ndraws, r.stoas))
    /\ UNCHANGED psrs

AddEfac ==
    /\ Len(calls) < MaxCalls
    /\ \E p \in DOMAIN psrs, seed \in SeedArgs :
         Injected("add_efac", p, seed, [efac |-> 1],
                  add_efac(psrs[p], stoas[p], 1, seed, rng))

AddEquad ==
    /\ Len(calls) < MaxCalls
    /\ \E p \in DOMAIN psrs, seed \in SeedArgs :
         Injected("add_equad", p, seed, [equad |-> 1],
                  add_equad(psrs[p], stoas[p], 1, seed, rng))

AddJitter ==
    /\ Len(calls) < MaxCalls
    /\ \E p \in DOMAIN psrs, seed \in SeedArgs :
         \E isort \in Argsorts(psrs[p].toas) :
            Injected("add_jitter", p, seed, [equad |-> 1],
                     add_jitter(psrs[p], stoas[p], 1, seed, rng, isort))

AddRednoise ==
    /\ Len(calls) < MaxCalls
    /\ \E p \in DOMAIN psrs, seed \in SeedArgs :
         Injected("add_rednoise", p, seed, [components |-> DefaultComponents],
                  add_rednoise(psrs[p], stoas[p], 1, 3, DefaultComponents, seed, rng))

AddDm ==
    /\ Len(calls) < MaxCalls
    /\ \E p \in DOMAIN psrs, seed \in SeedArgs :
         Injected("add_dm", p, seed, [components |-> DefaultComponents],
                  add_dm(psrs[p], stoas[p], 1, 3, DefaultComponents, seed, rng))

\* createGWB_clean with npts = 2 and howml = 7 (which returns) or howml = 1
\* (which raises after reseeding)
GWBInSession ==
    /\ Len(calls) < MaxCalls
    /\ \E seed \in SeedArgs, howml \in {1, 7} :
         CreateGWBCall(FALSE, FALSE, seed, 2, howml, FALSE)

NextSeed ==
    \/ AddEfac
    \/ AddEquad
    \/ AddJitter
    \/ AddRednoise
    \/ AddDm
    \/ GWBInSession

SpecSeed == InitSeed /\ [][NextSeed]_vars

----------------------------------------------------------------------------
(* createGWB_clean: the packed spectrum, the returned arrays, the ORF *)

IsGWBCall(i) == i \in DOMAIN calls /\ calls[i].op = "createGWB_clean"

\* b is the complex conjugate of a
IsConjugate(a, b) ==
    /\ a.kind = b.kind
    /\ a.bin = b.bin
    /\ DOMAIN a.c = DOMAIN b.c
    /\ \A j \in DOMAIN a.c : a.c[j][1] = b.c[j][1] /\ a.c[j][2] = 0 - b.c[j][2]

\* the call got as far as packing Res_f2
Packed(i) == IsGWBCall(i) /\ calls[i].ret.raised \in {"", "ValueError"}

(* C10: for every pulsar and every bin count Nf >= 2 the packed spectrum
   Res_f2 has 2*Nf-2 bins, bins 0 and Nf-1 are zero, bin k is the conjugate
   of bin 2*Nf-2-k for k in 1..2*Nf-3, and bins 0..Nf-1 are Res_f. *)
C10_Hermitian ==
    \A i \in DOMAIN calls :
        Packed(i) =>
            LET ret == calls[i].ret
                Nf == ret.Nf
            IN  /\ Nf >= 2
                /\ DOMAIN ret.Res_f2 = 1..Len(calls[i].args.psr)
                /\ \A ll \in DOMAIN ret.Res_f2 :
                     /\ DOMAIN ret.Res_f2[ll] = 0..(2 * Nf - 3)
                     /\ ret.Res_f2[ll][0] = Zero
                     /\ ret.Res_f2[ll][Nf - 1] = Zero
                     /\ \A k \in 1..(2 * Nf - 3) :
                          IsConjugate(ret.Res_f2[ll][k], ret.Res_f2[ll][2 * Nf - 2 - k])
                     /\ \A k \in 0..(Nf - 1) : ret.Res_f2[ll][k] = ret.Res_f[ll][k]

\* a packed spectrum of two correlated pulsars with a bin above Nyquist whose
\* imaginary part is not zero
C10_Witness ==
    \E i \in DOMAIN calls :
        /\ Packed(i)
        /\ calls[i].ret.Nf >= 4
        /\ Len(calls[i].args.psr) = 2
        /\ ~calls[i].args.noCorr
        /\ \E k \in calls[i].ret.Nf..(2 * calls[i].ret.Nf - 3) :
             /\ calls[i].ret.Res_f2[2][k].kind = "lin"
             /\ calls[i].ret.Res_f2[2][k].c[1][2] # 0
             /\ calls[i].ret.Res_f2[2][k].c[2][2] # 0

\* no NaN reaches the ORF of call i
FiniteORF(i) == ~HasNaN(calls[i].ret.ORF)

(* C3: for every non-empty pulsar list, npts >= 2 and howml >= 1 the call
   returns, one array per pulsar in input order, each as long as the pulsar's
   epochs; the series of 2*Nf-2 samples holds at least npts+10.  (Stated for
   the lists whose ORF is finite.) *)
C3_AlwaysReturns ==
    \A i \in DOMAIN calls :
        (IsGWBCall(i) /\ FiniteORF(i)) =>
            LET ret == calls[i].ret
                psr == calls[i].args.psr
            IN  /\ ret.raised = ""
                /\ 2 * ret.Nf - 2 >= calls[i].args.npts + 10
                /\ Len(ret.res_gw) = Len(psr)
                /\ \A ll \in DOMAIN psr : Len(ret.res_gw[ll]) = nobs(psr[ll])

(* C7: coincident pulsars are special-cased: the ORF of a list with two
   entries in one direction holds 2 for that pair or computeORFMatrix raises;
   no NaN entry is returned, handed to the Cholesky factorization, or behind
   returned residuals. *)
C7_CoincidentHandled ==
    \A i \in DOMAIN calls :
        (IsGWBCall(i) /\ ~calls[i].args.noCorr) =>
            LET ret == calls[i].ret
                psr == calls[i].args.psr
            IN  /\ ~HasNaN(ret.ORF)
                /\ ~HasNaN(ret.choleskyOf)
                /\ \A ll \in DOMAIN ret.Res_f2 : \A k \in DOMAIN ret.Res_f2[ll] :
                     ret.Res_f2[ll][k].kind # "nan"
                /\ ret.raised \in {"", "DomainError"} \/ FiniteORF(i)

----------------------------------------------------------------------------
(* The seed and the shared generator *)

\* the generator state call i leaves
StateAfter(i) == IF i < Len(calls) THEN calls[i + 1].rng0 ELSE rng

Seeded(i) == calls[i].seed # NoSeed

(* C1: two calls of createGWB_clean with the same seed (not None) and the
   same inputs return the same arrays, whatever ran before each and whatever
   state the generator was in. *)
C1_Deterministic ==
    \A a, b \in DOMAIN calls :
        ( /\ IsGWBCall(a) /\ IsGWBCall(b)
          /\ Seeded(a)
          /\ calls[a].seed = calls[b].seed
          /\ calls[a].args = calls[b].args )
        => /\ calls[a].ret.raised = calls[b].ret.raised
           /\ calls[a].ret.res_gw = calls[b].ret.res_gw
           /\ calls[a].ret.Res = calls[b].ret.Res

\* two returning calls with one seed that found the generator in states
\* from which the deviates differ, an unseeded call in between
C1_Witness ==
    \E a, b \in DOMAIN calls :
        /\ a + 1 < b
        /\ IsGWBCall(a) /\ IsGWBCall(b)
        /\ Seeded(a) /\ calls[a].seed = calls[b].seed
        /\ calls[a].args = calls[b].args
        /\ ~Seeded(a + 1)
        /\ calls[a].ret.raised = "" /\ calls[b].ret.raised = ""
        /\ Randn(calls[a].rng0, calls[a].ndraws) # Randn(calls[b].rng0, calls[b].ndraws)

(* C8, as stated: a call made with a seed leaves the generator as if it had
   not reseeded it, so the seed does not reach a later seed=None call. *)
C8_Original ==
    \A i \in DOMAIN calls :
        Seeded(i) => StateAfter(i) = RngAfter(calls[i].rng0, calls[i].ndraws)

----------------------------------------------------------------------------
(* SpecORF: one call of computeORFMatrix on a list of up to MaxPsr pulsars *)
(* on the quarter-turn grid of the sky                                     *)

GridPulsars == {Pulsar(raj, decj, <<0>>) : raj \in 0..3, decj \in {0 - 1, 0, 1}}

InitORF ==
    /\ rng = 0
    /\ psrs \in UNION {[1..n -> GridPulsars] : n \in 1..MaxPsr}
    /\ stoas = [p \in DOMAIN psrs |-> NoneAdded(psrs[p])]
    /\ calls = <<>>

ComputeORFCall ==
    /\ calls = <<>>
    /\ calls' = Append(calls,
                  Call("computeORFMatrix", NoSeed, [psr |-> psrs], rng, 0,
                       computeORFMatrix(psrs)))
    /\ UNCHANGED <<rng, psrs, stoas>>

NextORF == ComputeORFCall

SpecORF == InitORF /\ [][NextORF]_vars

IsORFCall == calls # <<>> /\ Last.op = "computeORFMatrix"

DistinctDirections(psr) ==
    \A a, b \in DOMAIN psr : a # b => Phat(psr[a]) # Phat(psr[b])

(* C2: for every list of pulsars with pairwise distinct directions the ORF
   is symmetric, its diagonal is exactly 2, and an off-diagonal entry is a
   function of xi = (1 - p_i.p_j)/2 alone: 3/4 - (3/2) ln 2 at xi = 1/2,
   1/2 at xi = 1, and equal for any two pairs with equal xi. *)
C2_SymmetricORF ==
    (IsORFCall /\ DistinctDirections(Last.args.psr)) =>
        LET psr == Last.args.psr
            ORF == Last.ret
            n == Len(psr)
        IN  /\ Len(ORF) = n
            /\ \A i \in 1..n :
                 /\ Len(ORF[i]) = n
                 /\ ORF[i][i] = OrfNum(24, 0)
                 /\ \A j \in 1..n :
                      /\ ORF[i][j] = ORF[j][i]
                      /\ ~ORF[i][j].nan
                      /\ (i # j /\ Dot(Phat(psr[i]), Phat(psr[j])) = 0) =>
                            ORF[i][j] = OrfNum(9, 0 - 18)
                      /\ (i # j /\ Dot(Phat(psr[i]), Phat(psr[j])) = 0 - 1) =>
                            ORF[i][j] = OrfNum(6, 0)
                      /\ \A k, l \in 1..n :
                            ( /\ i # j /\ k # l
                              /\ Dot(Phat(psr[i]), Phat(psr[j])) = Dot(Phat(psr[k]), Phat(psr[l])) )
                            => ORF[i][j] = ORF[k][l]

\* three pulsars in distinct directions, one pair orthogonal, one antipodal
C2_Witness ==
    /\ IsORFCall
    /\ Len(Last.args.psr) = 3
    /\ DistinctDirections(Last.args.psr)
    /\ Last.ret[1][2] = OrfNum(9, 0 - 18)
    /\ Last.ret[3][1] = OrfNum(6, 0)

----------------------------------------------------------------------------
(* SpecCgw: one call of add_cgw on one pulsar, observed at times 0 and 3   *)

CgwPulsars == {Pulsar(raj, decj, <<0, 3>>) : raj \in 0..1, decj \in {0 - 1, 0, 1}}

\* the merger at or after an epoch, or before one (epochs are 0 and 3, less tref)
MergerTimes == {2, 3}

PphaseArgs == {<<>>} \cup {<<q>> : q \in 0..MaxDelay}

InitCgw ==
    /\ rng = 0
    /\ psrs \in {<<p>> : p \in CgwPulsars}
    /\ stoas = [p \in DOMAIN psrs |-> NoneAdded(psrs[p])]
    /\ calls = <<>>

AddCgw ==
    /\ calls = <<>>
    /\ \E gwtheta \in 0..2, gwphi \in 0..1, tc \in MergerTimes, phase0 \in 0..1,
          psi \in 0..1, inc \in 0..1, pdist \in 0..MaxDelay, pphase \in PphaseArgs,
          psrTerm \in BOOLEAN, evolve \in BOOLEAN, phase_approx \in BOOLEAN,
          tref \in 0..1 :
         LET r == add_cgw(psrs[1], stoas[1], gwtheta, gwphi, tc, phase0, psi, inc,
                          pdist, pphase, psrTerm, evolve, phase_approx, tref)
         IN  /\ stoas' = [stoas EXCEPT ![1] = r.stoas]
             /\ calls' = Append(calls,
                           Call("add_cgw", NoSeed,
                                [psr |-> psrs[1], gwtheta |-> gwtheta, gwphi |-> gwphi,
                                 tc |-> tc, phase0 |-> phase0, psi |-> psi, inc |-> inc,
                                 pdist |-> pdist, pphase |-> pphase, psrTerm |-> psrTerm,
                                 evolve |-> evolve, phase_approx |-> phase_approx,
                                 tref |-> tref],
                                rng, 0, r))
    /\ UNCHANGED <<rng, psrs>>

NextCgw == AddCgw

SpecCgw == InitCgw /\ [][NextCgw]_vars

IsCgwCall == calls # <<>> /\ Last.op = "add_cgw"

(* C4: exactly one evolution policy per call: with evolve on (whatever
   phase_approx is) both frequencies and both phases follow the chirp, at
   the observer time and at the pulsar time; with evolve off and
   phase_approx on the observer frequency is w0 with phase phase0/2 + w0*t
   and the pulsar frequency is chirped back by the delay, its phase both
   chirped and linear in t; with both off omega = omega_p = w0 and the phase
   is phase0/2 + w0*t at the observer time t and at the pulsar time tp. *)
C4_OnePolicy ==
    IsCgwCall =>
        LET a == Last.args
            ret == Last.ret
        IN  \A i \in DOMAIN ret.ev :
                LET e == ret.ev[i]
                    t == Num(a.psr.toas[i] - a.tref)
                    tp == Sub(t, ret.delay)
                    back == Neg(ret.delay)
                IN  /\ a.evolve =>
                          /\ e.omega = Chirp(t) /\ e.omega_p = Chirp(tp)
                          /\ e.phase = PhaseOf(a.phase0, <<t>>, W0, <<>>)
                          /\ e.phase_p = PhaseOf(a.phase0, <<tp>>, W0, <<>>)
                    /\ (~a.evolve /\ a.phase_approx) =>
                          /\ e.omega = W0 /\ e.omega_p = Chirp(back)
                          /\ e.phase = PhaseOf(a.phase0, <<>>, W0, <<t>>)
                          /\ e.phase_p = PhaseOf(a.phase0, <<back>>, Chirp(back), <<t>>)
                    /\ (~a.evolve /\ ~a.phase_approx) =>
                          /\ e.omega = W0 /\ e.omega_p = W0
                          /\ e.phase = PhaseOf(a.phase0, <<>>, W0, <<t>>)
                          /\ e.phase_p = PhaseOf(a.phase0, <<>>, W0, <<tp>>)

\* a call with both flags on, the pulsar term delayed, so that the three
\* policies would give three different pulsar phases
C4_Witness ==
    /\ IsCgwCall
    /\ Last.args.evolve /\ Last.args.phase_approx
    /\ Last.ret.delay.k = "num" /\ Last.ret.delay.v > 0
    /\ Last.ret.ev[2].omega_p = Chirp(Num(3 - Last.args.tref - Last.ret.delay.v))
    /\ Last.ret.ev[2].phase.t = <<>>

\* the residuals the call would have injected with pdist, pphase in place of
\* its own
ResWith(a, pdist, pphase) ==
    add_cgw(a.psr, NoneAdded(a.psr), a.gwtheta, a.gwphi, a.tc, a.phase0, a.psi, a.inc,
            pdist, pphase, a.psrTerm, a.evolve, a.phase_approx, a.tref)

(* C5: with psrTerm on the injected residual is
   fplus*(rplus_p - rplus) + fcross*(rcross_p - rcross); with psrTerm off it
   is -fplus*rplus - fcross*rcross, and is the same for every pdist and
   pphase, under every evolution policy. *)
C5_PulsarTerm ==
    IsCgwCall =>
        LET a == Last.args
            ret == Last.ret
        IN  /\ \A i \in DOMAIN ret.res :
                 /\ a.psrTerm =>
                      ret.res[i] = Add(Mul(ret.fplus, Sub(ret.rplus_p[i], ret.rplus[i])),
                                       Mul(ret.fcross, Sub(ret.rcross_p[i], ret.rcross[i])))
                 /\ ~a.psrTerm =>
                      ret.res[i] = Sub(Mul(Neg(ret.fplus), ret.rplus[i]),
                                       Mul(ret.fcross, ret.rcross[i]))
            /\ ~a.psrTerm =>
                 \A pdist \in 0..MaxDelay, pphase \in PphaseArgs :
                    LET other == ResWith(a, pdist, pphase)
                    IN  other.res = ret.res /\ other.stoas = ret.stoas

\* a call without the pulsar term that injects a non-zero residual, for which
\* another pdist would change the pulsar-time projection
C5_Witness ==
    /\ IsCgwCall
    /\ ~Last.args.psrTerm
    /\ \E i \in DOMAIN Last.ret.res :
         /\ Last.ret.res[i].k = "num" /\ Last.ret.res[i].v # 0
         /\ stoas[1][i] # <<>>
         /\ \E pdist \in 0..MaxDelay :
              ResWith(Last.args, pdist, <<>>).rplus_p[i] # Last.ret.rplus_p[i]

(* C6: for a source at gwtheta = 0, gwphi = 0 and a pulsar at theta = 0
   (DECJ a quarter turn), with inc = 0, psi = 0 and psrTerm off, fplus and
   fcross are 0 and a residual of exactly 0 is added to every epoch, which
   leaves the pulsar's stoas unchanged. *)
C6_ZeroResponse ==
    ( /\ IsCgwCall
      /\ Last.args.gwtheta = 0 /\ Last.args.gwphi = 0
      /\ Last.args.psr.DECJ = 1
      /\ Last.args.inc = 0 /\ Last.args.psi = 0
      /\ ~Last.args.psrTerm )
    => /\ Last.ret.fplus = Num(0)
       /\ Last.ret.fcross = Num(0)
       /\ \A i \in DOMAIN Last.ret.res : Last.ret.res[i] = Num(0)
       /\ stoas[1] = NoneAdded(Last.args.psr)

====
